---- MODULE Spec2Model ----
(***************************************************************************)
(* external-mdns: the resource-to-record synchronisation engine.           *)
(*                                                                         *)
(* Source adapters (cmd/source) turn informer notifications into           *)
(* resource.Resource snapshots and send them on the unbuffered channel     *)
(* notifyMdns; the consumer loop of run() (cmd/man.go) receives one        *)
(* snapshot at a time, builds its record lines with constructRecords and   *)
(* hands each line to mdns.Publish or mdns.UnPublish.                      *)
(*                                                                         *)
(* Strings are TLA+ strings built with \o, so that two record lines are    *)
(* equal in the model exactly when the program would build equal lines.    *)
(* An address literal is modelled by the form of its text ("v4": dotted    *)
(* quad, "v6": colon-hex, "bad": anything else, "empty": "") and the bytes *)
(* it denotes; net.ParseIP, To4 and String are computed from those.        *)
(***************************************************************************)
EXTENDS Integers, Sequences, FiniteSets, TLC


VARIABLES
    cfg,      \* the viper settings read by constructRecords (fixed at start)
    synced,   \* per adapter: sharedInformer.HasSynced()
    store,    \* per adapter: the informer's objects, key -> object or Nil
    notifs,   \* history: the notifications delivered to the handlers, each with
              \*          the lines its old and its new object call for
    outbox,   \* per adapter: snapshots the running handler has still to send
    cur,      \* consumer: advertiseResource, the snapshot in hand
    todo,     \* consumer: records of cur not yet dispatched
    table,    \* the responder's record table
    calls,    \* history: the calls made to mdns.Publish / mdns.UnPublish
    recvd,    \* history: the snapshots received from notifyMdns, each with the
              \*          lines constructRecords returned for it
    alive,    \* FALSE once lg.Fatal has ended the process
    probe     \* a single call of constructRecords, reverseAddress or buildRecords
              \*          with its argument and result (Nil while the program runs)

vars == <<cfg, synced, store, notifs, outbox, cur, todo, table, calls, recvd, alive, probe>>

Nil == <<>>

(***************************************************************************)
(* Bounds of the model.                                                    *)
(***************************************************************************)
MaxNotifs == 3

\* notifications delivered in the runs checked for progress
MaxFairNotifs == 2

(***************************************************************************)
(* Sequence helpers.                                                       *)
(***************************************************************************)
Range(s) == {s[i] : i \in 1..Len(s)}

\* the concatenation of the sequences ss[i], ss[i+1], ...
RECURSIVE FlattenFrom(_, _)
FlattenFrom(ss, i) == IF i > Len(ss) THEN <<>> ELSE ss[i] \o FlattenFrom(ss, i + 1)

Flatten(ss) == FlattenFrom(ss, 1)

\* the strings ss[i], ss[i+1], ... with sep between them
RECURSIVE JoinFrom(_, _, _)
JoinFrom(ss, sep, i) ==
    IF i > Len(ss) THEN ""
    ELSE IF i = Len(ss) THEN ss[i]
    ELSE ss[i] \o sep \o JoinFrom(ss, sep, i + 1)

JoinStr(ss, sep) == JoinFrom(ss, sep, 1)

Min(S) == CHOOSE x \in S : \A y \in S : x <= y
Max(S) == CHOOSE x \in S : \A y \in S : y <= x

IsPrefix(s, t) == Len(s) <= Len(t) /\ SubSeq(t, 1, Len(s)) = s

(***************************************************************************)
(* Addresses: net.ParseIP, IP.To4, IP.String as used by man.go.            *)
(***************************************************************************)
V4(a, b, c, d) == [b |-> <<a, b, c, d>>, form |-> "v4"]
V6(bytes)      == [b |-> bytes, form |-> "v6"]
BadIP          == [b |-> <<>>, form |-> "bad"]
EmptyIP        == [b |-> <<>>, form |-> "empty"]

v4InV6Prefix == <<0, 0, 0, 0, 0, 0, 0, 0, 0, 0, 255, 255>>

\* net.ParseIP: the 16-byte form for both families, Nil when not a literal.
ParseIP(lit) ==
    IF lit.form = "v4" THEN v4InV6Prefix \o lit.b
    ELSE IF lit.form = "v6" THEN lit.b
    ELSE Nil

\* IP.To4: the 4-byte form of an IPv4 or IPv4-mapped address, else Nil.
To4(ip) ==
    IF Len(ip) = 16 /\ SubSeq(ip, 1, 12) = v4InV6Prefix
    THEN SubSeq(ip, 13, 16) ELSE Nil

hexDigit == <<"0", "1", "2", "3", "4", "5", "6", "7",
              "8", "9", "a", "b", "c", "d", "e", "f">>

\* lower-case hexadecimal without leading zeros
RECURSIVE HexStr(_)
HexStr(n) == IF n < 16 THEN hexDigit[n + 1]
             ELSE HexStr(n \div 16) \o hexDigit[(n % 16) + 1]

Groups(ip) == [i \in 1..8 |-> ip[2 * i - 1] * 256 + ip[2 * i]]

\* length of the run of zero groups starting at group i
RECURSIVE ZeroRun(_, _)
ZeroRun(g, i) == IF i > 8 \/ g[i] # 0 THEN 0 ELSE 1 + ZeroRun(g, i + 1)

\* IP.String: dotted quad for To4 addresses, else RFC 5952 text.
IPString(ip) ==
    IF To4(ip) # Nil
    THEN JoinStr([i \in 1..4 |-> ToString(To4(ip)[i])], ".")
    ELSE LET g    == Groups(ip)
             best == CHOOSE i \in 1..8 :
                        /\ \A j \in 1..8 : ZeroRun(g, j) <= ZeroRun(g, i)
                        /\ \A j \in 1..(i - 1) : ZeroRun(g, j) < ZeroRun(g, i)
             run  == ZeroRun(g, best)
             hex(a, b) == JoinStr([i \in 1..(b - a + 1) |-> HexStr(g[a + i - 1])], ":")
         IN  IF run < 2 THEN hex(1, 8)
             ELSE hex(1, best - 1) \o "::" \o hex(best + run, 8)

\* mutant: the octets of an IPv4 address are kept in their order
reverseAddressForward(addr) ==
    LET ip == ParseIP(addr) IN
    IF ip = Nil THEN [arpa |-> "", err |-> TRUE]
    ELSE IF To4(ip) # Nil
    THEN [arpa |-> IPString(v4InV6Prefix \o <<ip[13], ip[14], ip[15], ip[16]>>)
                       \o ".in-addr.arpa.",
          err  |-> FALSE]
    ELSE [arpa |-> JoinStr([k \in 1..16 |->
                       LET v == ip[17 - k] IN
                       hexDigit[(v % 16) + 1] \o "." \o hexDigit[(v \div 16) + 1] \o "."], "")
                   \o "ip6.arpa.",
          err  |-> FALSE]

\* mutant: the high nibble of each byte is written before the low one
reverseAddressHighNibbleFirst(addr) ==
    LET ip == ParseIP(addr) IN
    IF ip = Nil THEN [arpa |-> "", err |-> TRUE]
    ELSE IF To4(ip) # Nil
    THEN [arpa |-> IPString(v4InV6Prefix \o <<ip[16], ip[15], ip[14], ip[13]>>)
                       \o ".in-addr.arpa.",
          err  |-> FALSE]
    ELSE [arpa |-> JoinStr([k \in 1..16 |->
                       LET v == ip[17 - k] IN
                       hexDigit[(v \div 16) + 1] \o "." \o hexDigit[(v % 16) + 1] \o "."], "")
                   \o "ip6.arpa.",
          err  |-> FALSE]

\* reverseAddress: [arpa, err]
reverseAddress(addr) ==
    LET ip == ParseIP(addr) IN
    IF ip = Nil THEN [arpa |-> "", err |-> TRUE]
    ELSE IF To4(ip) # Nil
    THEN [arpa |-> IPString(v4InV6Prefix \o <<ip[16], ip[15], ip[14], ip[13]>>)
                       \o ".in-addr.arpa.",
          err  |-> FALSE]
    ELSE [arpa |-> JoinStr([k \in 1..16 |->
                       LET v == ip[17 - k] IN
                       hexDigit[(v % 16) + 1] \o "." \o hexDigit[(v \div 16) + 1] \o "."], "")
                   \o "ip6.arpa.",
          err  |-> FALSE]

(***************************************************************************)
(* constructRecords (man.go): the record lines of one snapshot under the   *)
(* settings c, in the order they are appended.                             *)
(***************************************************************************)
RecordLine(owner, ttl, type, rdata) ==
    owner \o " " \o ToString(ttl) \o " IN " \o type \o " " \o rdata

\* mutant: both PTR lines of the first loop target the dot-separated form
QualifiedLinesOneTarget(c, r, name, type, ip, reverseIP) ==
    <<RecordLine(name \o "." \o r.Namespace \o ".local.", c.RecordTTL, type, IPString(ip)),
      RecordLine(name \o "-" \o r.Namespace \o ".local.", c.RecordTTL, type, IPString(ip))>>
    \o (IF reverseIP # ""
        THEN <<RecordLine(reverseIP, c.RecordTTL, "PTR", name \o "." \o r.Namespace \o ".local."),
               RecordLine(reverseIP, c.RecordTTL, "PTR", name \o "." \o r.Namespace \o ".local.")>>
        ELSE <<>>)

\* mutant: the second loop over r.Names is never run
UnqualifiedLinesNone(c, r, name, type, ip, reverseIP) == <<>>

\* the lines appended for one name by the first loop over r.Names
QualifiedLines(c, r, name, type, ip, reverseIP) ==
    <<RecordLine(name \o "." \o r.Namespace \o ".local.", c.RecordTTL, type, IPString(ip)),
      RecordLine(name \o "-" \o r.Namespace \o ".local.", c.RecordTTL, type, IPString(ip))>>
    \o (IF reverseIP # ""
        THEN <<RecordLine(reverseIP, c.RecordTTL, "PTR", name \o "." \o r.Namespace \o ".local."),
               RecordLine(reverseIP, c.RecordTTL, "PTR", name \o "-" \o r.Namespace \o ".local.")>>
        ELSE <<>>)

\* the lines appended for one name by the second loop over r.Names
UnqualifiedLines(c, r, name, type, ip, reverseIP) ==
    <<RecordLine(name \o ".local.", c.RecordTTL, type, IPString(ip))>>
    \o (IF reverseIP # ""
        THEN <<RecordLine(reverseIP, c.RecordTTL, "PTR", name \o ".local.")>>
        ELSE <<>>)

\* mutant: the names of an Ingress are published without namespace like any other
PublishWithoutNamespaceNoSourceRule(c, r) ==
    \/ r.Namespace = c.DefaultNamespace
    \/ r.WithoutNamespace
    \/ c.WithoutNamespace

\* the condition under which the names are also published without namespace
PublishWithoutNamespace(c, r) ==
    \/ r.Namespace = c.DefaultNamespace
    \/ r.WithoutNamespace
    \/ c.WithoutNamespace
    \/ r.SourceType = "ingress"

\* mutant: the family of the address is not checked against the flags
RecordsForIPAnyFamily(c, r, resourceIP) ==
    LET ip        == ParseIP(resourceIP)
        reverseIP == reverseAddress(resourceIP).arpa
        isV4      == To4(ip) # Nil
        type      == IF isV4 THEN "A" ELSE "AAAA"
    IN  IF ip = Nil THEN <<>>
        ELSE Flatten([n \in 1..Len(r.Names) |->
                        QualifiedLines(c, r, r.Names[n], type, ip, reverseIP)])
             \o (IF PublishWithoutNamespace(c, r)
                 THEN Flatten([n \in 1..Len(r.Names) |->
                                 UnqualifiedLines(c, r, r.Names[n], type, ip, reverseIP)])
                 ELSE <<>>)

\* the body of the loop over r.IPs for one address
RecordsForIP(c, r, resourceIP) ==
    LET ip        == ParseIP(resourceIP)
        reverseIP == reverseAddress(resourceIP).arpa
        isV4      == To4(ip) # Nil
        type      == IF isV4 THEN "A" ELSE "AAAA"
    IN  IF ip = Nil THEN <<>>
        ELSE IF isV4 /\ ~c.ExposeIPv4 THEN <<>>
        ELSE IF ~isV4 /\ ~c.ExposeIPv6 THEN <<>>
        ELSE Flatten([n \in 1..Len(r.Names) |->
                        QualifiedLines(c, r, r.Names[n], type, ip, reverseIP)])
             \o (IF PublishWithoutNamespace(c, r)
                 THEN Flatten([n \in 1..Len(r.Names) |->
                                 UnqualifiedLines(c, r, r.Names[n], type, ip, reverseIP)])
                 ELSE <<>>)

\* mutant: an address that does not parse ends the loop over r.IPs
constructRecordsStopAtUnparsed(c, r) ==
    LET bad  == {i \in 1..Len(r.IPs) : ParseIP(r.IPs[i]) = Nil}
        last == IF bad = {} THEN Len(r.IPs) ELSE Min(bad) - 1
    IN  Flatten([i \in 1..last |-> RecordsForIP(c, r, r.IPs[i])])

constructRecords(c, r) ==
    Flatten([i \in 1..Len(r.IPs) |-> RecordsForIP(c, r, r.IPs[i])])

(***************************************************************************)
(* The settings (viper flags of the svc command, man.go init()).           *)
(***************************************************************************)
RecordTTL == 120

DefaultSettings ==
    [RecordTTL |-> RecordTTL, DefaultNamespace |-> "default",
     WithoutNamespace |-> FALSE, ExposeIPv4 |-> TRUE, ExposeIPv6 |-> FALSE]

Settings ==
    {DefaultSettings,
     [DefaultSettings EXCEPT !.ExposeIPv4 = FALSE, !.ExposeIPv6 = TRUE]}

(***************************************************************************)
(* The objects the informers hold.  A rule host is modelled by what        *)
(* tld.Parse makes of it: Subdomain, Domain and TLD ("" for the empty      *)
(* host; Domain "" with TLD "local" is the host ".local", which tld.Parse  *)
(* rejects).                                                               *)
(***************************************************************************)
Host(sub, dom, tld) == [sub |-> sub, dom |-> dom, tld |-> tld]
EmptyHost == Host("", "", "")

Adapters == {"ingress", "service"}

Keys(a) ==
    IF a = "ingress"
    THEN {[name |-> "web", ns |-> "kube"], [name |-> "web", ns |-> "default"]}
    ELSE {[name |-> "a", ns |-> "default"]}

ip1 == V4(10, 0, 0, 5)
ip2 == V6(<<253, 0, 0, 0, 0, 0, 0, 0, 0, 0, 0, 0, 0, 0, 0, 1>>)

\* Spec.Rules and Status.LoadBalancer.Ingress of the Ingress objects drawn
IngressShapes ==
    {[Rules |-> <<Host("", "a", "local")>>, LB |-> <<ip1>>],
     [Rules |-> <<Host("", "a", "com"), EmptyHost, Host("", "", "local"),
                  Host("", "b", "local"), Host("x", "b", "local")>>,
      LB |-> <<EmptyIP, ip1>>],
     [Rules |-> <<Host("", "a", "local")>>, LB |-> <<EmptyIP>>]}

ServiceShapes ==
    {[WithoutNamespace |-> FALSE, IPs |-> <<ip1, ip2>>],
     [WithoutNamespace |-> FALSE, IPs |-> <<>>]}

\* the objects an informer can hold under key k
\* shapes an Ingress of namespace ns is drawn from (one outside "kube")
IngressShapesIn(ns) ==
    IF ns = "kube" THEN IngressShapes
    ELSE {sh \in IngressShapes : sh.Rules = <<Host("", "a", "local")>> /\ sh.LB = <<ip1>>}

Objects(a, k) ==
    IF a = "ingress"
    THEN {[Namespace |-> k.ns, Rules |-> sh.Rules, LB |-> sh.LB,
           kind |-> "Ingress", Name |-> k.name] : sh \in IngressShapesIn(k.ns)}
    ELSE {[Namespace |-> k.ns, WithoutNamespace |-> sh.WithoutNamespace, IPs |-> sh.IPs,
           kind |-> "Service", Name |-> k.name] : sh \in ServiceShapes}

\* what a delete handler is given when the final state is unknown
Tombstone == [kind |-> "DeletedFinalStateUnknown"]

(***************************************************************************)
(* IngressSource.buildRecords.                                             *)
(***************************************************************************)
HostString(h) ==
    IF h = EmptyHost THEN ""
    ELSE (IF h.sub # "" THEN h.sub \o "." ELSE "") \o h.dom \o "." \o h.tld

\* strings.HasSuffix(rule.Host, ".local")
HasLocalSuffix(h) == h.tld = "local"

\* mutant: the suffix of the host is not looked at
RuleHostnameAnySuffix(h) ==
    IF HostString(h) = "" THEN Nil
    ELSE IF h.dom = "" THEN Nil
    ELSE IF h.sub # "" THEN <<h.sub \o "." \o h.dom>>
    ELSE <<h.dom>>

\* the hostname advertised for a rule, Nil when the rule is skipped
RuleHostname(h) ==
    IF HostString(h) = "" \/ ~HasLocalSuffix(h) THEN Nil
    ELSE IF h.dom = "" THEN Nil                     \* tld.Parse fails
    ELSE IF h.sub # "" THEN <<h.sub \o "." \o h.dom>>
    ELSE <<h.dom>>

\* the non-empty load-balancer IPs, in order
ipFields(obj) == SelectSeq(obj.LB, LAMBDA lit : lit.form # "empty")

\* mutant: the check for an object without addresses left out
buildRecordsNoAddressCheck(obj, action) ==
    IF obj.kind # "Ingress" THEN <<>>
    ELSE Flatten([i \in 1..Len(obj.Rules) |->
            IF RuleHostname(obj.Rules[i]) = Nil THEN <<>>
            ELSE <<[Namespace |-> obj.Namespace,
                    WithoutNamespace |-> FALSE,
                    SourceType |-> "ingress",
                    Names |-> RuleHostname(obj.Rules[i]),
                    IPs |-> ipFields(obj),
                    Action |-> action]>>])

buildRecords(obj, action) ==
    IF obj.kind # "Ingress" THEN <<>>
    ELSE IF Len(ipFields(obj)) = 0 THEN <<>>
    ELSE Flatten([i \in 1..Len(obj.Rules) |->
            IF RuleHostname(obj.Rules[i]) = Nil THEN <<>>
            ELSE <<[Namespace |-> obj.Namespace,
                    WithoutNamespace |-> FALSE,
                    SourceType |-> "ingress",
                    Names |-> RuleHostname(obj.Rules[i]),
                    IPs |-> ipFields(obj),
                    Action |-> action]>>])

(***************************************************************************)
(* The service adapter (cmd/source, NewServicesWatcher): its code is not   *)
(* part of the sources at hand; it is modelled from the adapter contract.  *)
(***************************************************************************)
buildServiceRecords(obj, action) ==
    IF obj.kind # "Service" THEN <<>>
    ELSE IF Len(obj.IPs) = 0 \/ obj.Name = "" THEN <<>>
    ELSE <<[Namespace |-> obj.Namespace,
            WithoutNamespace |-> obj.WithoutNamespace,
            SourceType |-> "service",
            Names |-> <<obj.Name>>,
            IPs |-> obj.IPs,
            Action |-> action]>>

build(a, obj, action) ==
    IF a = "ingress" THEN buildRecords(obj, action)
    ELSE buildServiceRecords(obj, action)

SetAction(rs, action) == [i \in 1..Len(rs) |-> [rs[i] EXCEPT !.Action = action]]

(***************************************************************************)
(* The handlers: the snapshots each sends on notifyChan, in order.         *)
(***************************************************************************)
onAdd(a, obj) == build(a, obj, "Added")

\* mutant: the handler builds its snapshots with the action of onAdd
onDeleteAsAdded(a, obj) == build(a, obj, "Added")

onDelete(a, obj) == build(a, obj, "Deleted")

\* mutant: the actions of the two halves exchanged
onUpdateSwappedActions(a, oldObj, newObj) ==
    SetAction(build(a, oldObj, "Updated"), "Added")
    \o SetAction(build(a, newObj, "Updated"), "Deleted")

\* mutant: the new object's snapshots sent first
onUpdateNewFirst(a, oldObj, newObj) ==
    SetAction(build(a, newObj, "Updated"), "Added")
    \o SetAction(build(a, oldObj, "Updated"), "Deleted")

onUpdate(a, oldObj, newObj) ==
    SetAction(build(a, oldObj, "Updated"), "Deleted")
    \o SetAction(build(a, newObj, "Updated"), "Added")

\* the snapshots of notification number nid, each with its identity
Tagged(rs, nid) == [i \in 1..Len(rs) |-> [r |-> rs[i], id |-> <<nid, i>>]]

(***************************************************************************)
(* The consumer loop of run() and the responder.                           *)
(***************************************************************************)
\* mutant: the loop sends from the end of the slice
SendLast(q) == q[Len(q)]

\* the element a handler's range loop sends next, and what remains
SendNext(q) == Head(q)
\* mutant: what the handler has not sent when one send is taken is discarded
SendRestDiscarded(q) == <<>>

SendRest(q) == Tail(q)

\* mutant: the consumer receives while records are still to dispatch
AtSelectAnytime(td) == TRUE

\* the consumer is at its select exactly when no record of cur is left
AtSelect(td) == td = <<>>

\* mutant: the cases of the switch exchanged
DispatchOpExchanged(action) ==
    IF action = "Added" THEN "unpublish"
    ELSE IF action = "Deleted" THEN "publish"
    ELSE "none"

\* the switch on advertiseResource.Action
DispatchOp(action) ==
    IF action = "Added" THEN "publish"
    ELSE IF action = "Deleted" THEN "unpublish"
    ELSE "none"

\* mdns.Publish / mdns.UnPublish on the responder's table (idempotent)
Responder(tbl, op, rr) ==
    IF op = "publish" THEN tbl \cup {rr} ELSE tbl \ {rr}

\* mutant: the error is logged and the loop goes on
AliveAfterCallLogOnly(err) == TRUE

\* publishRecord / unpublishRecord: lg.Fatal ends the process on an error
AliveAfterCall(err) == ~err

(***************************************************************************)
(* Initial state: nothing listed, nothing published.                       *)
(***************************************************************************)
Init ==
    /\ cfg \in Settings
    /\ synced = [a \in Adapters |-> FALSE]
    /\ store = [a \in Adapters |-> [k \in Keys(a) |-> Nil]]
    /\ notifs = <<>>
    /\ outbox = [a \in Adapters |-> <<>>]
    /\ cur = Nil
    /\ todo = <<>>
    /\ table = {}
    /\ calls = <<>>
    /\ recvd = <<>>
    /\ alive = TRUE
    /\ probe = Nil

\* the record lines of a sequence of snapshots, in dispatch order
LinesOf(rs) == Flatten([i \in 1..Len(rs) |-> constructRecords(cfg, rs[i])])

\* the lines an object calls for: those of the snapshots its adapter builds from it
DerivedLines(a, obj) == IF obj = Nil THEN <<>> ELSE LinesOf(build(a, obj, "Added"))

\* an informer calls its handler again only when the previous call returned
HandlerIdle(a) == outbox[a] = <<>>

Deliver(a, kind, k, oldObj, newObj, final, rs) ==
    /\ notifs' = Append(notifs,
           [kind |-> kind, final |-> final, src |-> a, key |-> k,
            old |-> oldObj, new |-> newObj, snaps |-> Tagged(rs, Len(notifs) + 1),
            oldLines |-> DerivedLines(a, oldObj), newLines |-> DerivedLines(a, newObj)])
    /\ outbox' = [outbox EXCEPT ![a] = Tagged(rs, Len(notifs) + 1)]
    /\ UNCHANGED <<cfg, synced, cur, todo, table, calls, recvd, alive, probe>>

\* the informer's initial list has been handed over
InformerSynced(a) ==
    /\ alive
    /\ ~synced[a]
    /\ synced' = [synced EXCEPT ![a] = TRUE]
    /\ UNCHANGED <<cfg, store, notifs, outbox, cur, todo, table, calls, recvd, alive, probe>>

NotifyAdd(a, k, obj) ==
    /\ alive
    /\ HandlerIdle(a)
    /\ Len(notifs) < MaxNotifs
    /\ store[a][k] = Nil
    /\ store' = [store EXCEPT ![a][k] = obj]
    /\ Deliver(a, "add", k, Nil, obj, TRUE, onAdd(a, obj))

NotifyUpdate(a, k, obj) ==
    /\ alive
    /\ HandlerIdle(a)
    /\ Len(notifs) < MaxNotifs
    /\ synced[a]
    /\ store[a][k] # Nil
    /\ store' = [store EXCEPT ![a][k] = obj]
    /\ Deliver(a, "update", k, store[a][k], obj, TRUE, onUpdate(a, store[a][k], obj))

NotifyDelete(a, k, final) ==
    /\ alive
    /\ HandlerIdle(a)
    /\ Len(notifs) < MaxNotifs
    /\ synced[a]
    /\ store[a][k] # Nil
    /\ store' = [store EXCEPT ![a][k] = Nil]
    /\ Deliver(a, "delete", k, store[a][k], Nil, final,
               onDelete(a, IF final THEN store[a][k] ELSE Tombstone))

\* case advertiseResource := <-notifyMdns, meeting adapter a's send
Receive(a) ==
    /\ alive
    /\ AtSelect(todo)
    /\ outbox[a] # <<>>
    /\ cur' = SendNext(outbox[a])
    /\ outbox' = [outbox EXCEPT ![a] = SendRest(outbox[a])]
    /\ todo' = constructRecords(cfg, SendNext(outbox[a]).r)
    /\ recvd' = Append(recvd, [id |-> SendNext(outbox[a]).id,
                               lines |-> constructRecords(cfg, SendNext(outbox[a]).r)])
    /\ UNCHANGED <<cfg, synced, store, notifs, table, calls, alive, probe>>

\* one iteration of the loop over the records of cur
Dispatch(err) ==
    /\ alive
    /\ todo # <<>>
    /\ todo' = Tail(todo)
    /\ LET rr == Head(todo)
           op == DispatchOp(cur.r.Action)
       IN  IF rr = "" \/ op = "none"
           THEN /\ ~err
                /\ UNCHANGED <<table, calls, alive>>
           ELSE /\ calls' = Append(calls, [err |-> err, id |-> cur.id, op |-> op, rr |-> rr])
                /\ table' = IF err THEN table ELSE Responder(table, op, rr)
                /\ alive' = AliveAfterCall(err)
    /\ UNCHANGED <<cfg, synced, store, notifs, outbox, cur, recvd, probe>>

(***************************************************************************)
(* The select of run has a second case, <-stopper.  The channel is closed  *)
(* only by the deferred close(stopper) of run, which runs when run         *)
(* returns, and run returns only from that case; lg.Fatal leaves without   *)
(* running it and the adapters only read the channel.  The case is never   *)
(* ready while the loop runs, so it is no step of the consumer.            *)
(***************************************************************************)
Next ==
    \/ \E a \in Adapters : InformerSynced(a)
    \/ \E a \in Adapters : \E k \in Keys(a) : \E obj \in Objects(a, k) : NotifyAdd(a, k, obj)
    \/ \E a \in Adapters : \E k \in Keys(a) : \E obj \in Objects(a, k) : NotifyUpdate(a, k, obj)
    \/ \E a \in Adapters : \E k \in Keys(a) : \E final \in BOOLEAN : NotifyDelete(a, k, final)
    \/ \E a \in Adapters : Receive(a)
    \/ \E err \in BOOLEAN : Dispatch(err)

Spec == Init /\ [][Next]_vars

(***************************************************************************)
(* Scheduling.  The consumer goroutine keeps running: a loop iteration     *)
(* that can be taken is taken (weak fairness of Dispatch).  A send blocked *)
(* on notifyMdns waits in the channel's FIFO queue of senders and is taken *)
(* by one of the consumer's next receives (strong fairness of Receive per  *)
(* adapter: the receive is disabled while a snapshot is being dispatched). *)
(* SF_vars(Receive(a)) is written out, with ReceiveEnabled(a) for          *)
(* ENABLED <<Receive(a)>>_vars: a receive always changes outbox.           *)
(***************************************************************************)
ReceiveEnabled(a) == alive /\ AtSelect(todo) /\ outbox[a] # <<>>

Fairness ==
    /\ WF_vars(\E err \in BOOLEAN : Dispatch(err))
    /\ \A a \in Adapters : <>[]~ReceiveEnabled(a) \/ []<><<Receive(a)>>_vars

\* the program started with the default flags
FairInit == Init /\ cfg = DefaultSettings

\* the steps of the program while at most MaxFairNotifs notifications are delivered
FairNext == Next /\ Len(notifs') <= MaxFairNotifs

FairSpec == FairInit /\ [][FairNext]_vars /\ Fairness

(***************************************************************************)
(* The functions on their own.  constructRecords, reverseAddress and       *)
(* IngressSource.buildRecords are functions of their argument (and of the  *)
(* flags): SynthSpec calls each of them once on an argument drawn from the *)
(* sets below and keeps argument and result in probe.                      *)
(***************************************************************************)
\* the most addresses in the IPs of a snapshot drawn
MaxIPs == 2

\* the flags read by constructRecords, in every combination
PolicySettings ==
    {[RecordTTL |-> RecordTTL, DefaultNamespace |-> "default",
      WithoutNamespace |-> w, ExposeIPv4 |-> e4, ExposeIPv6 |-> e6] :
        w \in BOOLEAN, e4 \in BOOLEAN, e6 \in BOOLEAN}

\* "::ffff:10.0.0.5", an IPv6 literal whose bytes are an IPv4-mapped address
ip3 == V6(v4InV6Prefix \o <<10, 0, 0, 5>>)

ip4 == V4(192, 168, 1, 20)

\* the address literals a snapshot drawn can carry
SnapshotAddrs == {ip1, ip2, ip3, ip4, BadIP, EmptyIP}

SeqsUpTo(S, n) == UNION {[1..m -> S] : m \in 0..n}

\* the snapshots handed to constructRecords
Snapshots ==
    {[Namespace |-> ns, WithoutNamespace |-> w, SourceType |-> st,
      Names |-> names, IPs |-> ips, Action |-> "Added"] :
        ns \in {"default", "kube-system"}, w \in BOOLEAN, st \in {"service", "ingress"},
        names \in {<<"foo">>, <<"foo", "bar">>}, ips \in SeqsUpTo(SnapshotAddrs, MaxIPs)}

\* the octets of the dotted quads handed to reverseAddress
Octets == {0, 5, 10, 127, 255}

\* the IPv6 literals handed to reverseAddress, by their 16 bytes
V6Bytes ==
    {ip2.b, ip3.b,
     [i \in 1..16 |-> 0],
     [i \in 1..16 |-> 255],
     <<32, 1, 13, 184, 0, 0, 0, 0, 0, 0, 255, 0, 0, 66, 131, 41>>,
     <<0, 0, 0, 0, 0, 0, 0, 0, 0, 0, 255, 254, 10, 0, 0, 5>>}

\* the literals handed to reverseAddress
ReverseArgs ==
    {V4(a, b, c, d) : a \in Octets, b \in Octets, c \in Octets, d \in Octets}
    \cup {V6(bytes) : bytes \in V6Bytes}
    \cup {BadIP, EmptyIP}

\* the rule hosts of the Ingress objects handed to buildRecords
RuleHosts == {Host("", "a", "local"), Host("x", "b", "local"), Host("", "a", "com"),
              Host("", "", "local"), EmptyHost}

MaxRules == 3

\* the load-balancer lists of the Ingress objects handed to buildRecords
LBLists == {<<>>, <<EmptyIP>>, <<ip1>>, <<EmptyIP, ip1>>, <<ip1, EmptyIP, ip2>>}

IngressArgs ==
    {[Namespace |-> "kube", Rules |-> rules, LB |-> lb, kind |-> "Ingress", Name |-> "web"] :
        rules \in SeqsUpTo(RuleHosts, MaxRules), lb \in LBLists}
    \cup {Tombstone}

SynthInit ==
    /\ cfg \in PolicySettings
    /\ synced = [a \in Adapters |-> FALSE]
    /\ store = [a \in Adapters |-> [k \in Keys(a) |-> Nil]]
    /\ notifs = <<>>
    /\ outbox = [a \in Adapters |-> <<>>]
    /\ cur = Nil
    /\ todo = <<>>
    /\ table = {}
    /\ calls = <<>>
    /\ recvd = <<>>
    /\ alive = TRUE
    /\ probe = Nil

CallConstructRecords(r) ==
    /\ probe = Nil
    /\ probe' = [fn |-> "constructRecords", arg |-> r, out |-> constructRecords(cfg, r)]
    /\ UNCHANGED <<cfg, synced, store, notifs, outbox, cur, todo, table, calls, recvd, alive>>

CallReverseAddress(addr) ==
    /\ probe = Nil
    /\ probe' = [fn |-> "reverseAddress", arg |-> addr, out |-> reverseAddress(addr)]
    /\ UNCHANGED <<cfg, synced, store, notifs, outbox, cur, todo, table, calls, recvd, alive>>

CallBuildRecords(obj) ==
    /\ probe = Nil
    /\ probe' = [fn |-> "buildRecords", arg |-> obj, out |-> buildRecords(obj, "Added")]
    /\ UNCHANGED <<cfg, synced, store, notifs, outbox, cur, todo, table, calls, recvd, alive>>

SynthNext ==
    \/ \E r \in Snapshots : CallConstructRecords(r)
    \/ \E addr \in ReverseArgs : CallReverseAddress(addr)
    \/ \E obj \in IngressArgs : CallBuildRecords(obj)

SynthSpec == SynthInit /\ [][SynthNext]_vars

(***************************************************************************)
(* Reading the histories.                                                  *)
(***************************************************************************)
\* the snapshot with identity id
SnapshotOf(id) == notifs[id[1]].snaps[id[2]].r

\* the calls made for snapshot id, and for notification nid, in call order
CallsOfSnapshot(id) == SelectSeq(calls, LAMBDA c : c.id = id)
CallsOfNotif(nid) == SelectSeq(calls, LAMBDA c : c.id[1] = nid)

\* the lines derived from the old and from the new object of notification n
OldLines(n) == n.oldLines
NewLines(n) == n.newLines

Updates(a) == {nid \in 1..Len(notifs) : notifs[nid].src = a /\ notifs[nid].kind = "update"}

\* the source adapter of the snapshot with identity id
SourceOf(id) == notifs[id[1]].src

\* the calls the snapshots received so far call for, in the order of receipt: one per
\* line constructRecords returned, publish for Added and unpublish for Deleted
ExpectedCalls ==
    Flatten([p \in 1..Len(recvd) |->
        [i \in 1..Len(recvd[p].lines) |->
            [id |-> recvd[p].id,
             op |-> IF SnapshotOf(recvd[p].id).Action = "Added" THEN "publish" ELSE "unpublish",
             rr |-> recvd[p].lines[i]]]])

\* the calls made, without their outcome
CallsMade == [i \in 1..Len(calls) |-> [id |-> calls[i].id, op |-> calls[i].op, rr |-> calls[i].rr]]

(***************************************************************************)
(* C1. For every Updated notification handled by the ingress adapter, the  *)
(* calls made for it are the unpublish calls for the lines of the old      *)
(* object, in order, followed by the publish calls for the lines of the    *)
(* new object: no publish of a new line is issued before every old line    *)
(* has had its unpublish.                                                  *)
(***************************************************************************)
C1_UnpublishOldBeforePublishNew ==
    \A nid \in Updates("ingress") :
        LET cs   == CallsOfNotif(nid)
            olds == OldLines(notifs[nid])
            news == NewLines(notifs[nid])
        IN  /\ Len(cs) <= Len(olds) + Len(news)
            /\ \A i \in 1..Len(cs) :
                  IF i <= Len(olds)
                  THEN cs[i].op = "unpublish" /\ cs[i].rr = olds[i]
                  ELSE cs[i].op = "publish" /\ cs[i].rr = news[i - Len(olds)]

\* an ingress update with old and new lines has been dispatched to the end
C1_Witness ==
    \E nid \in Updates("ingress") :
        /\ OldLines(notifs[nid]) # <<>>
        /\ NewLines(notifs[nid]) # <<>>
        /\ NewLines(notifs[nid]) # OldLines(notifs[nid])
        /\ Len(CallsOfNotif(nid)) = Len(OldLines(notifs[nid])) + Len(NewLines(notifs[nid]))

(***************************************************************************)
(* Live entities and the lines they call for.                              *)
(***************************************************************************)
LiveObjects ==
    UNION {{<<a, store[a][k]>> : k \in {kk \in Keys(a) : store[a][kk] # Nil}} : a \in Adapters}

LiveLines == UNION {Range(DerivedLines(e[1], e[2])) : e \in LiveObjects}

\* every handler has returned, the consumer waits at its select, no call failed
Drained ==
    /\ alive
    /\ todo = <<>>
    /\ \A a \in Adapters : outbox[a] = <<>>

\* every delete handler was given the final state of its object
FinalStatesKnown == \A nid \in 1..Len(notifs) : notifs[nid].final

OnlyIngressNotified == \A nid \in 1..Len(notifs) : notifs[nid].src = "ingress"

(***************************************************************************)
(* C2. After any sequence of add/update/delete notifications, once the     *)
(* consumer has drained every snapshot, the responder's table equals the   *)
(* union of the lines synthesized from the live entities.  (Stated for     *)
(* the runs in which every delete handler was given the final object and   *)
(* only the ingress adapter was notified.)                                 *)
(***************************************************************************)
C2_TableEqualsLiveLines ==
    (Drained /\ FinalStatesKnown /\ OnlyIngressNotified) => table = LiveLines

(***************************************************************************)
(* C3. For each snapshot taken from the pipeline, the calls made for it    *)
(* are, in order, one call per line constructRecords returned, publish     *)
(* when the action is Added and unpublish when it is Deleted, never the    *)
(* other: the call history is the expected calls of the snapshots          *)
(* received, less the records of the snapshot in hand still to dispatch,   *)
(* and is all of them once the loop over its records has finished.         *)
(***************************************************************************)
C3_OneCallPerRecordInOrder ==
    /\ \A p \in 1..Len(recvd) : SnapshotOf(recvd[p].id).Action \in {"Added", "Deleted"}
    /\ Len(todo) <= Len(ExpectedCalls)
    /\ CallsMade = SubSeq(ExpectedCalls, 1, Len(ExpectedCalls) - Len(todo))

\* an Added and a Deleted snapshot with several lines have both been dispatched in full
C3_Witness ==
    /\ alive
    /\ todo = <<>>
    /\ \E p, q \in 1..Len(recvd) :
          /\ SnapshotOf(recvd[p].id).Action = "Added"
          /\ SnapshotOf(recvd[q].id).Action = "Deleted"
          /\ Len(recvd[p].lines) >= 4
          /\ Len(recvd[q].lines) >= 4
          /\ Len(CallsOfSnapshot(recvd[p].id)) = Len(recvd[p].lines)
          /\ Len(CallsOfSnapshot(recvd[q].id)) = Len(recvd[q].lines)

(***************************************************************************)
(* C4. A failing publish or unpublish call ends the process: it is the     *)
(* last call ever made (no call for the remaining records of the snapshot  *)
(* in hand or for a later snapshot, no retry).                             *)
(***************************************************************************)
C4_NoCallAfterFailure ==
    /\ \A i \in 1..Len(calls) : calls[i].err => (i = Len(calls) /\ ~alive)
    /\ ~alive => (calls # <<>> /\ calls[Len(calls)].err)

\* a call failed while records of the snapshot in hand and a later snapshot were pending
C4_Witness ==
    /\ calls # <<>>
    /\ calls[Len(calls)].err
    /\ todo # <<>>
    /\ \E a \in Adapters : outbox[a] # <<>>

(***************************************************************************)
(* C5. The consumer finishes one snapshot before it receives the next:     *)
(* every snapshot received before the latest has had all its calls, the    *)
(* records still to dispatch are those of the latest, and the calls of     *)
(* two snapshots never interleave (the calls of each snapshot are one      *)
(* unbroken stretch of the call history).                                  *)
(***************************************************************************)
C5_OneSnapshotAtATime ==
    /\ \A p \in 1..(Len(recvd) - 1) :
          Cardinality({i \in 1..Len(calls) : calls[i].id = recvd[p].id}) = Len(recvd[p].lines)
    /\ recvd # <<>> =>
          /\ cur.id = recvd[Len(recvd)].id
          /\ LET recs == recvd[Len(recvd)].lines
                 done == Len(recs) - Len(todo)
             IN  /\ done >= 0
                 /\ todo = SubSeq(recs, done + 1, Len(recs))
    /\ Cardinality({i \in 1..Len(calls) : i = 1 \/ calls[i].id # calls[i - 1].id})
          = Cardinality({calls[i].id : i \in 1..Len(calls)})

\* snapshots of both adapters were dispatched while the other adapter was blocked in a send
C5_Witness ==
    /\ \E p, q \in 1..Len(recvd) :
          /\ SourceOf(recvd[p].id) = "ingress"
          /\ SourceOf(recvd[q].id) = "service"
          /\ CallsOfSnapshot(recvd[p].id) # <<>>
          /\ CallsOfSnapshot(recvd[q].id) # <<>>
    /\ todo # <<>>
    /\ \A a \in Adapters : outbox[a] # <<>>

(***************************************************************************)
(* C6. Per adapter, the snapshots are received, and dispatched, in the     *)
(* order in which that adapter's handlers sent them.                       *)
(***************************************************************************)
\* the identities of the snapshots adapter a has built so far, in sending order
Emitted(a) ==
    Flatten([nid \in 1..Len(notifs) |->
        IF notifs[nid].src = a
        THEN [i \in 1..Len(notifs[nid].snaps) |-> notifs[nid].snaps[i].id]
        ELSE <<>>])

ReceivedIds == [p \in 1..Len(recvd) |-> recvd[p].id]

ReceivedFrom(a) == SelectSeq(ReceivedIds, LAMBDA id : SourceOf(id) = a)

C6_PerAdapterFIFO ==
    /\ \A a \in Adapters :
          /\ IsPrefix(ReceivedFrom(a), Emitted(a))
          /\ ReceivedFrom(a) \o [i \in 1..Len(outbox[a]) |-> outbox[a][i].id] = Emitted(a)
    /\ \A i \in 2..Len(calls) :
          calls[i].id # calls[i - 1].id =>
              \E p, q \in 1..Len(recvd) :
                  p < q /\ recvd[p].id = calls[i - 1].id /\ recvd[q].id = calls[i].id

\* both adapters have had several snapshots received, interleaved
C6_Witness ==
    /\ Len(ReceivedFrom("ingress")) >= 3
    /\ Len(ReceivedFrom("service")) >= 1
    /\ \E p, q, r \in 1..Len(recvd) :
          /\ p < q /\ q < r
          /\ SourceOf(recvd[p].id) = "ingress"
          /\ SourceOf(recvd[q].id) = "service"
          /\ SourceOf(recvd[r].id) = "ingress"

(***************************************************************************)
(* C7. Every snapshot an adapter sends, and so every snapshot that reaches *)
(* constructRecords, has at least one name and at least one address.       *)
(***************************************************************************)
Usable(r) == Len(r.Names) >= 1 /\ Len(r.IPs) >= 1

C7_SnapshotsHaveNameAndAddress ==
    /\ \A a \in Adapters : \A i \in 1..Len(outbox[a]) : Usable(outbox[a][i].r)
    /\ \A p \in 1..Len(recvd) : Usable(SnapshotOf(recvd[p].id))
    /\ cur # Nil => Usable(cur.r)

\* the ingress adapter has filtered rules and an empty address and still sent a snapshot,
\* and has sent nothing for an object without addresses
C7_Witness ==
    /\ \E p \in 1..Len(recvd) :
          LET n == notifs[recvd[p].id[1]] IN
          /\ n.src = "ingress" /\ n.kind = "add"
          /\ Len(n.new.LB) > Len(SnapshotOf(recvd[p].id).IPs)
          /\ Len(n.new.Rules) > Len(n.snaps)
    /\ \E nid \in 1..Len(notifs) :
          /\ notifs[nid].src = "ingress" /\ notifs[nid].kind = "add"
          /\ notifs[nid].snaps = <<>>

(***************************************************************************)
(* C9. No publish or unpublish call is made for a snapshot of the ingress  *)
(* adapter, and no such snapshot is taken for synthesis, before the        *)
(* adapter's informer has reported that its initial sync completed.        *)
(***************************************************************************)
C9_NoDispatchBeforeSync ==
    /\ \A p \in 1..Len(recvd) : SourceOf(recvd[p].id) = "ingress" => synced["ingress"]
    /\ \A i \in 1..Len(calls) : SourceOf(calls[i].id) = "ingress" => synced["ingress"]

(***************************************************************************)
(* C11. No accepted snapshot is dropped: while no responder call fails,    *)
(* every snapshot a handler has built for a notification is eventually     *)
(* received by the consumer and has one call made for each of its record   *)
(* lines; until it is received it stays in the sender's hands.             *)
(***************************************************************************)
\* the most snapshots one handler call can build (onUpdate: old and new)
MaxSnapsPerNotif ==
    2 * Max({Cardinality({i \in 1..Len(sh.Rules) : RuleHostname(sh.Rules[i]) # Nil}) :
                sh \in IngressShapes})

\* notification nid exists and its handler built an i-th snapshot
Built(nid, i) == nid <= Len(notifs) /\ i <= Len(notifs[nid].snaps)

\* the snapshot has been received and every one of its lines has had its call
Dispatched(id) ==
    \E p \in 1..Len(recvd) :
        /\ recvd[p].id = id
        /\ Len(CallsOfSnapshot(id)) = Len(recvd[p].lines)

C11_EverySnapshotDispatched ==
    \A nid \in 1..MaxFairNotifs : \A i \in 1..MaxSnapsPerNotif :
        Built(nid, i) ~> (Dispatched(<<nid, i>>) \/ ~alive)

\* a handler built two snapshots and both have been received and dispatched in full
\* while the other adapter was sending too
C11_Witness ==
    \E nid \in 1..Len(notifs) :
        /\ alive
        /\ Len(notifs[nid].snaps) >= 2
        /\ \A i \in 1..Len(notifs[nid].snaps) : Dispatched(<<nid, i>>)
        /\ \E m \in 1..Len(notifs) : notifs[m].src # notifs[nid].src

(***************************************************************************)
(* The processing of one Updated notification, as seen by the responder.   *)
(***************************************************************************)
\* the responder's table after the first k calls of the history
RECURSIVE TableAfter(_)
TableAfter(k) ==
    IF k = 0 THEN {}
    ELSE IF calls[k].err THEN TableAfter(k - 1)
    ELSE Responder(TableAfter(k - 1), calls[k].op, calls[k].rr)

\* positions in the call history of the calls made for notification nid
CallPositions(nid) == {i \in 1..Len(calls) : calls[i].id[1] = nid}

\* the table as it was when the first call for notification nid was made
TableAtStart(nid) == TableAfter(Min(CallPositions(nid)) - 1)

\* notification nid has had a call and not yet all of them, and the process runs
InProgress(nid) ==
    /\ alive
    /\ CallPositions(nid) # {}
    /\ Cardinality(CallPositions(nid))
          < Len(OldLines(notifs[nid])) + Len(NewLines(notifs[nid]))

Probed(fn) == probe # Nil /\ probe.fn = fn

\* the text of the dotted quad q
Dotted(q) ==
    ToString(q[1]) \o "." \o ToString(q[2]) \o "." \o ToString(q[3]) \o "." \o ToString(q[4])

\* the reverse-zone owner name of the dotted quad q
InAddrArpa(q) == Dotted(<<q[4], q[3], q[2], q[1]>>) \o ".in-addr.arpa."

Line(owner, type, rdata) ==
    owner \o " " \o ToString(cfg.RecordTTL) \o " IN " \o type \o " " \o rdata

\* the address literal is published under the flags: it parses and its family is enabled
Publishable(lit) ==
    /\ ParseIP(lit) # Nil
    /\ IF To4(ParseIP(lit)) # Nil THEN cfg.ExposeIPv4 ELSE cfg.ExposeIPv6

FamilyType(lit) == IF To4(ParseIP(lit)) # Nil THEN "A" ELSE "AAAA"

\* one of the four conditions for the unqualified forms holds for snapshot r
UnqualifiedWanted(r) ==
    \/ r.Namespace = cfg.DefaultNamespace
    \/ r.WithoutNamespace
    \/ cfg.WithoutNamespace
    \/ r.SourceType = "ingress"

(***************************************************************************)
(* C12. For every publishable address and every name of a snapshot,        *)
(* constructRecords emits the unqualified forward line and its PTR if and  *)
(* only if the namespace is the default namespace, the snapshot's          *)
(* WithoutNamespace is set, the global without-namespace flag is set or    *)
(* the SourceType is "ingress"; the namespace-qualified forward lines and  *)
(* their PTRs are emitted in every case.                                   *)
(***************************************************************************)
C12_UnqualifiedIffPolicy ==
    Probed("constructRecords") =>
        LET r   == probe.arg
            out == Range(probe.out)
        IN  \A i \in 1..Len(r.IPs) : \A n \in 1..Len(r.Names) :
                Publishable(r.IPs[i]) =>
                    LET lit  == r.IPs[i]
                        name == r.Names[n]
                        ip   == IPString(ParseIP(lit))
                        rev  == reverseAddress(lit).arpa
                        type == FamilyType(lit)
                        dot  == name \o "." \o r.Namespace \o ".local."
                        hyp  == name \o "-" \o r.Namespace \o ".local."
                        bare == name \o ".local."
                    IN  /\ Line(bare, type, ip) \in out <=> UnqualifiedWanted(r)
                        /\ Line(rev, "PTR", bare) \in out <=> UnqualifiedWanted(r)
                        /\ Line(dot, type, ip) \in out
                        /\ Line(hyp, type, ip) \in out
                        /\ \E t \in {dot, hyp} : Line(rev, "PTR", t) \in out

\* constructRecords was called on a snapshot that gets the unqualified forms for its
\* SourceType alone, and has emitted them for a publishable address
C12_Witness ==
    /\ Probed("constructRecords")
    /\ probe.arg.SourceType = "ingress"
    /\ probe.arg.Namespace # cfg.DefaultNamespace
    /\ ~probe.arg.WithoutNamespace /\ ~cfg.WithoutNamespace
    /\ \E i \in 1..Len(probe.arg.IPs) :
          /\ Publishable(probe.arg.IPs[i])
          /\ Line(probe.arg.Names[1] \o ".local.", FamilyType(probe.arg.IPs[i]),
                  IPString(ParseIP(probe.arg.IPs[i]))) \in Range(probe.out)

(***************************************************************************)
(* Snapshots with one name and one dotted-quad address in a namespace      *)
(* other than the default one, WithoutNamespace unset, under flags with    *)
(* IPv4 on, IPv6 off and without-namespace off.                            *)
(***************************************************************************)
OneNameOneV4Elsewhere ==
    /\ Probed("constructRecords")
    /\ Len(probe.arg.Names) = 1
    /\ Len(probe.arg.IPs) = 1
    /\ probe.arg.IPs[1].form = "v4"
    /\ probe.arg.Namespace # cfg.DefaultNamespace
    /\ ~probe.arg.WithoutNamespace
    /\ cfg.ExposeIPv4 /\ ~cfg.ExposeIPv6 /\ ~cfg.WithoutNamespace

\* the four namespace-qualified lines of name n in namespace ns for the dotted quad q
FourQualified(n, ns, q) ==
    <<Line(n \o "." \o ns \o ".local.", "A", Dotted(q)),
      Line(n \o "-" \o ns \o ".local.", "A", Dotted(q)),
      Line(InAddrArpa(q), "PTR", n \o "." \o ns \o ".local."),
      Line(InAddrArpa(q), "PTR", n \o "-" \o ns \o ".local.")>>

\* the two unqualified lines of name n for the dotted quad q
TwoUnqualified(n, q) ==
    <<Line(n \o ".local.", "A", Dotted(q)),
      Line(InAddrArpa(q), "PTR", n \o ".local.")>>

(***************************************************************************)
(* C13, as claimed.  For such a snapshot, whatever its SourceType,         *)
(* constructRecords returns exactly the four namespace-qualified lines and *)
(* no unqualified one.                                                     *)
(***************************************************************************)
C13_ExactlyFourAnySource ==
    OneNameOneV4Elsewhere =>
        /\ Len(probe.out) = 4
        /\ Range(probe.out) =
              Range(FourQualified(probe.arg.Names[1], probe.arg.Namespace, probe.arg.IPs[1].b))

(***************************************************************************)
(* C13, amended.  For such a snapshot constructRecords returns exactly the *)
(* four namespace-qualified lines when the SourceType is not "ingress",    *)
(* and those four followed by the two unqualified lines when it is.        *)
(***************************************************************************)
C13_FourUnlessIngress ==
    OneNameOneV4Elsewhere =>
        LET four == FourQualified(probe.arg.Names[1], probe.arg.Namespace, probe.arg.IPs[1].b)
            two  == TwoUnqualified(probe.arg.Names[1], probe.arg.IPs[1].b)
        IN  probe.out = IF probe.arg.SourceType = "ingress" THEN four \o two ELSE four

\* such a snapshot of the ingress adapter has had its six lines
C13_Witness ==
    /\ OneNameOneV4Elsewhere
    /\ probe.arg.SourceType = "ingress"
    /\ Len(probe.out) = 6

(***************************************************************************)
(* C14, as claimed.  No PTR line of constructRecords targets the           *)
(* hyphen-separated form name-namespace.local.; for every name and         *)
(* publishable address the PTR to name.namespace.local. is emitted.        *)
(***************************************************************************)
C14_PtrTargetsDotFormOnly ==
    Probed("constructRecords") =>
        \A i \in 1..Len(probe.arg.IPs) : \A n \in 1..Len(probe.arg.Names) :
            Publishable(probe.arg.IPs[i]) =>
                LET rev == reverseAddress(probe.arg.IPs[i]).arpa
                    dot == probe.arg.Names[n] \o "." \o probe.arg.Namespace \o ".local."
                    hyp == probe.arg.Names[n] \o "-" \o probe.arg.Namespace \o ".local."
                IN  /\ Line(rev, "PTR", dot) \in Range(probe.out)
                    /\ Line(rev, "PTR", hyp) \notin Range(probe.out)

(***************************************************************************)
(* C14, amended.  For every name and publishable address constructRecords  *)
(* emits two PTR lines for the namespace-qualified forms, one to           *)
(* name.namespace.local. and one to name-namespace.local., each right      *)
(* after the two forward lines and in that order.                          *)
(***************************************************************************)
C14_PtrPerQualifiedForm ==
    Probed("constructRecords") =>
        \A i \in 1..Len(probe.arg.IPs) : \A n \in 1..Len(probe.arg.Names) :
            Publishable(probe.arg.IPs[i]) =>
                LET rev == reverseAddress(probe.arg.IPs[i]).arpa
                    ip  == IPString(ParseIP(probe.arg.IPs[i]))
                    dot == probe.arg.Names[n] \o "." \o probe.arg.Namespace \o ".local."
                    hyp == probe.arg.Names[n] \o "-" \o probe.arg.Namespace \o ".local."
                IN  \E p \in 1..(Len(probe.out) - 3) :
                        SubSeq(probe.out, p, p + 3) =
                            <<Line(dot, FamilyType(probe.arg.IPs[i]), ip),
                              Line(hyp, FamilyType(probe.arg.IPs[i]), ip),
                              Line(rev, "PTR", dot),
                              Line(rev, "PTR", hyp)>>

\* constructRecords has emitted a PTR line to the hyphen-separated form
C14_Witness ==
    /\ Probed("constructRecords")
    /\ \E i \in 1..Len(probe.arg.IPs) :
          /\ Publishable(probe.arg.IPs[i])
          /\ Line(reverseAddress(probe.arg.IPs[i]).arpa, "PTR",
                  probe.arg.Names[1] \o "-" \o probe.arg.Namespace \o ".local.")
                \in Range(probe.out)

(***************************************************************************)
(* Reading record lines: "<owner> <ttl> IN <type> <rdata>".                *)
(***************************************************************************)
HasInfix(s, t)  == \E i \in 1..(Len(s) - Len(t) + 1) : SubSeq(s, i, i + Len(t) - 1) = t
HasSuffix(s, t) == Len(t) <= Len(s) /\ SubSeq(s, Len(s) - Len(t) + 1, Len(s)) = t

\* the owner name of a record line: the text before its first blank
Owner(line) ==
    LET blanks == {i \in 1..Len(line) : SubSeq(line, i, i) = " "}
    IN  SubSeq(line, 1, Min(blanks) - 1)

\* the snapshot r with only those of its addresses that are published under the flags
WithPublishableIPs(r) == [r EXCEPT !.IPs = SelectSeq(r.IPs, Publishable)]

BothFamilies == [cfg EXCEPT !.ExposeIPv4 = TRUE, !.ExposeIPv6 = TRUE]

(***************************************************************************)
(* C15. With IPv6 publication disabled constructRecords emits no AAAA line *)
(* and no line owned by an ip6.arpa. name; with IPv4 publication disabled  *)
(* it emits no A line and no line owned by an in-addr.arpa. name; the      *)
(* output is what the addresses of the enabled families alone give when    *)
(* nothing is disabled.                                                    *)
(***************************************************************************)
C15_DisabledFamilyContributesNothing ==
    Probed("constructRecords") =>
        /\ ~cfg.ExposeIPv6 =>
              \A l \in Range(probe.out) :
                  ~HasInfix(l, " IN AAAA ") /\ ~HasSuffix(Owner(l), "ip6.arpa.")
        /\ ~cfg.ExposeIPv4 =>
              \A l \in Range(probe.out) :
                  ~HasInfix(l, " IN A ") /\ ~HasSuffix(Owner(l), "in-addr.arpa.")
        /\ probe.out = constructRecords(BothFamilies, WithPublishableIPs(probe.arg))

\* IPv6 is disabled and the snapshot has an IPv6 literal next to an IPv4 one that gave lines
C15_Witness ==
    /\ Probed("constructRecords")
    /\ ~cfg.ExposeIPv6 /\ cfg.ExposeIPv4
    /\ \E i, j \in 1..Len(probe.arg.IPs) :
          /\ probe.arg.IPs[i] = ip2
          /\ probe.arg.IPs[j] = ip1
    /\ probe.out # <<>>

\* the host of the rule is not empty and ends in .local
LocalHost(h) == HostString(h) # "" /\ HasSuffix(HostString(h), ".local")

\* tld.Parse accepts the host: the name before its last label is not empty
ParsedHost(h) == h.dom # ""

LocalParsedHost(h) == LocalHost(h) /\ ParsedHost(h)

\* the snapshots buildRecords must return for the Ingress obj one per rule that is not skipped
SnapshotsOfRules(obj) ==
    LET kept == SelectSeq(obj.Rules, LocalParsedHost)
    IN  [i \in 1..Len(kept) |->
            [Namespace |-> obj.Namespace,
             WithoutNamespace |-> FALSE,
             SourceType |-> "ingress",
             Names |-> <<IF kept[i].sub # "" THEN kept[i].sub \o "." \o kept[i].dom
                         ELSE kept[i].dom>>,
             IPs |-> SelectSeq(obj.LB, LAMBDA lit : lit # EmptyIP),
             Action |-> "Added"]]

NoAddress(obj) == \A i \in 1..Len(obj.LB) : obj.LB[i] = EmptyIP

(***************************************************************************)
(* C16, as claimed.  buildRecords returns no snapshot for an Ingress       *)
(* without a non-empty load-balancer IP, and otherwise exactly one         *)
(* snapshot per rule whose host is non-empty and ends in .local, in rule   *)
(* order, each with one name, the namespace of the object and its full     *)
(* address list.                                                           *)
(***************************************************************************)
C16_OneSnapshotPerLocalRule ==
    (Probed("buildRecords") /\ probe.arg.kind = "Ingress") =>
        IF NoAddress(probe.arg) THEN probe.out = <<>>
        ELSE /\ Len(probe.out) = Len(SelectSeq(probe.arg.Rules, LocalHost))
             /\ \A i \in 1..Len(probe.out) :
                   /\ Len(probe.out[i].Names) = 1
                   /\ probe.out[i].Namespace = probe.arg.Namespace
                   /\ probe.out[i].IPs = SelectSeq(probe.arg.LB, LAMBDA lit : lit # EmptyIP)

(***************************************************************************)
(* C16, amended.  buildRecords returns no snapshot for an Ingress without  *)
(* a non-empty load-balancer IP, and otherwise exactly one snapshot per    *)
(* rule whose host is non-empty, ends in .local and is accepted by         *)
(* tld.Parse, in rule order, each with one name (the host without .local), *)
(* the namespace of the object and its full address list; the other rules  *)
(* contribute nothing.                                                     *)
(***************************************************************************)
C16_OneSnapshotPerParsedLocalRule ==
    (Probed("buildRecords") /\ probe.arg.kind = "Ingress") =>
        IF NoAddress(probe.arg) THEN probe.out = <<>>
        ELSE probe.out = SnapshotsOfRules(probe.arg)

\* an Ingress with a skipped rule between two .local rules has had its two snapshots
C16_Witness ==
    /\ Probed("buildRecords")
    /\ probe.arg.kind = "Ingress"
    /\ ~NoAddress(probe.arg)
    /\ Len(probe.arg.Rules) = 3
    /\ LocalParsedHost(probe.arg.Rules[1])
    /\ ~LocalParsedHost(probe.arg.Rules[2])
    /\ LocalParsedHost(probe.arg.Rules[3])
    /\ Len(probe.out) = 2

\* the output of constructRecords for the single address lit of the probed snapshot
PerAddress(lit) == constructRecords(cfg, [probe.arg EXCEPT !.IPs = <<lit>>])

Parses(lit) == lit.form \in {"v4", "v6"}

\* the snapshot r with only those of its addresses that parse
WithParsedIPs(r) == [r EXCEPT !.IPs = SelectSeq(r.IPs, Parses)]

(***************************************************************************)
(* C17. The output of constructRecords is the concatenation, in the order  *)
(* of r.IPs, of the outputs for each address alone; an address that does   *)
(* not parse contributes nothing, so the output equals that of the         *)
(* snapshot without its unparseable addresses; a snapshot without          *)
(* addresses yields the empty sequence.                                    *)
(***************************************************************************)
C17_ConcatenationOverAddresses ==
    Probed("constructRecords") =>
        LET ips == probe.arg.IPs
        IN  /\ probe.out = Flatten([i \in 1..Len(ips) |->
                                IF Parses(ips[i]) THEN PerAddress(ips[i]) ELSE <<>>])
            /\ \A i \in 1..Len(ips) : ~Parses(ips[i]) => PerAddress(ips[i]) = <<>>
            /\ probe.out = constructRecords(cfg, WithParsedIPs(probe.arg))
            /\ ips = <<>> => probe.out = <<>>

\* an unparseable address is followed by a publishable one, which gave its lines
C17_Witness ==
    /\ Probed("constructRecords")
    /\ Len(probe.arg.IPs) >= 2
    /\ ~Parses(probe.arg.IPs[1])
    /\ Publishable(probe.arg.IPs[2])
    /\ probe.out # <<>>

(***************************************************************************)
(* C18. For every IPv4 address a.b.c.d reverseAddress returns              *)
(* d.c.b.a.in-addr.arpa. and no error.                                     *)
(***************************************************************************)
C18_ReverseIPv4 ==
    (Probed("reverseAddress") /\ probe.arg.form = "v4") =>
        /\ ~probe.out.err
        /\ probe.out.arpa = ToString(probe.arg.b[4]) \o "." \o ToString(probe.arg.b[3]) \o "."
                             \o ToString(probe.arg.b[2]) \o "." \o ToString(probe.arg.b[1])
                             \o ".in-addr.arpa."

\* reverseAddress has answered for a dotted quad whose octets all differ from their mirror
C18_Witness ==
    /\ Probed("reverseAddress")
    /\ probe.arg.form = "v4"
    /\ probe.arg.b[1] # probe.arg.b[4]
    /\ probe.arg.b[2] # probe.arg.b[3]
    /\ ~probe.out.err

\* the 32 nibbles of 16 bytes, most significant first
Nibbles(bytes) == [k \in 1..32 |-> IF k % 2 = 1 THEN bytes[(k + 1) \div 2] \div 16
                                               ELSE bytes[k \div 2] % 16]

\* the labels n[k], n[k-1], ..., n[1], each followed by a dot
RECURSIVE LabelsDown(_, _)
LabelsDown(n, k) == IF k = 0 THEN "" ELSE hexDigit[n[k] + 1] \o "." \o LabelsDown(n, k - 1)

Ip6Arpa(bytes) == LabelsDown(Nibbles(bytes), 32) \o "ip6.arpa."

\* the 16 bytes are those of an IPv4-mapped address (::ffff:a.b.c.d)
Mapped(bytes) == SubSeq(bytes, 1, 12) = <<0, 0, 0, 0, 0, 0, 0, 0, 0, 0, 255, 255>>

(***************************************************************************)
(* C19, as claimed.  For every IPv6 literal, IPv4-mapped ones included,    *)
(* reverseAddress returns the 32 nibbles of the address in reverse order,  *)
(* one hexadecimal digit per label, followed by ip6.arpa.                  *)
(***************************************************************************)
C19_ReverseEveryIPv6Literal ==
    (Probed("reverseAddress") /\ probe.arg.form = "v6") =>
        /\ ~probe.out.err
        /\ probe.out.arpa = Ip6Arpa(probe.arg.b)

(***************************************************************************)
(* C19, amended.  For every IPv6 literal that is not IPv4-mapped           *)
(* reverseAddress returns the 32 nibbles of the address in reverse order,  *)
(* one hexadecimal digit per label, followed by ip6.arpa.; for an          *)
(* IPv4-mapped literal ::ffff:a.b.c.d it returns d.c.b.a.in-addr.arpa.;    *)
(* in neither case is there an error.                                      *)
(***************************************************************************)
C19_ReverseIPv6UnlessMapped ==
    (Probed("reverseAddress") /\ probe.arg.form = "v6") =>
        /\ ~probe.out.err
        /\ probe.out.arpa = IF Mapped(probe.arg.b)
                             THEN InAddrArpa(SubSeq(probe.arg.b, 13, 16))
                             ELSE Ip6Arpa(probe.arg.b)

\* reverseAddress has answered with an ip6.arpa. name of 32 labels for a literal with mixed nibbles
C19_Witness ==
    /\ Probed("reverseAddress")
    /\ probe.arg.form = "v6"
    /\ ~Mapped(probe.arg.b)
    /\ probe.arg.b[16] = 41
    /\ Len(probe.out.arpa) = 73

(***************************************************************************)
(* An add and a later delete of the same object.                           *)
(***************************************************************************)
\* the pairs <<i, j>>: notification i adds an Ingress and the later notification j deletes
\* it, the handler being given the object that was added
AddThenDelete ==
    {p \in (1..Len(notifs)) \X (1..Len(notifs)) :
        /\ p[1] < p[2]
        /\ notifs[p[1]].src = "ingress" /\ notifs[p[2]].src = "ingress"
        /\ notifs[p[1]].kind = "add" /\ notifs[p[2]].kind = "delete"
        /\ notifs[p[1]].key = notifs[p[2]].key
        /\ notifs[p[2]].final
        /\ notifs[p[2]].old = notifs[p[1]].new}

\* every snapshot of notification nid has been received and has had each of its calls,
\* none of which failed
Processed(nid) ==
    /\ \A s \in 1..Len(notifs[nid].snaps) :
          /\ \E p \in 1..Len(recvd) : recvd[p].id = <<nid, s>>
          /\ (cur # Nil /\ cur.id = <<nid, s>>) => todo = <<>>
    /\ \A k \in CallPositions(nid) : ~calls[k].err

\* the record lines of a sequence of calls
LinesCalled(cs) == [k \in 1..Len(cs) |-> cs[k].rr]

\* the calls of notification j directly follow those of notification i
Adjacent(i, j) ==
    /\ CallPositions(i) # {} /\ CallPositions(j) # {}
    /\ CallPositions(i) \cup CallPositions(j) = Min(CallPositions(i))..Max(CallPositions(j))

====
